---- MODULE Spec2Model ----
(***************************************************************************)
(* Authentication request lifecycle of the backend template: the register, *)
(* login and logout controllers, the token-verifying auth middleware and   *)
(* the users collection behind them.                                       *)
(*                                                                         *)
(* Strings are sequences of one-character strings, so that the schema's    *)
(* trim and lowercase setters are computed and not assumed.  A missing     *)
(* body field and an empty one are both the falsy value <<>>.  Body fields *)
(* are JSON strings; passwords stay within bcrypt's 72 bytes.              *)
(*                                                                         *)
(* Time is counted in ticks of 1/TicksPerSec second.  jsonwebtoken works   *)
(* in whole seconds: iat and the verification clock are                    *)
(* floor(Date.now() / 1000).                                               *)
(***************************************************************************)
EXTENDS Integers, Sequences, FiniteSets, TLC

\* ---------------------------------------------------------------- bounds
MaxReqs     == 2    \* requests in flight at once
MaxTime     == 2    \* last tick of the clock
TicksPerSec == 2    \* clock ticks per second (Date.now() is finer than 1 s)
MaxJar      == 1    \* cookies a client keeps for replay

\* expiresIn: '5d' of jwt.sign, in seconds of the model clock (5 days = 432000 s,
\* scaled so that a token's whole life fits the clock)
ExpiresIn == 1

\* bcrypt cost factor
SaltRounds == 10

Slots == 1..MaxReqs

\* ---------------------------------------------------------------- inputs
Names     == { <<>>, <<"n">>, <<" ">> }
Emails    == { <<>>, <<"a">>, <<"A">>, <<"b", " ">> }
Passwords == { <<>>, <<"p">>, <<"q">> }    \* tried at login
NewPasswords == { <<>>, <<"p">> }          \* chosen at registration
Salts     == { "s" }

\* process.env.JWT_SECRET, and a key the server does not hold
JWT_SECRET == "secret"
OtherKey   == "other"

\* an environment variable that is not set
Unset == ""

\* request lines, and whether the JSON body (when there is one) parses
Methods == { "GET", "POST", "OPTIONS" }
Paths   == { "/api/auth/register", "/api/auth/login", "/api/auth/logout",
             "/api/health", "/", "/api/users" }
Bodies  == { "ok", "malformed" }

VARIABLES
    users,      \* the users collection
    nextId,     \* next _id the store assigns
    now,        \* Date.now(), in ticks
    pc,         \* per request slot: where its handler stands
    req,        \* per request slot: the request (kind, body, cookie)
    loc,        \* per request slot: the handler's local variables
    res,        \* per request slot: the response sent, NoRes if none yet
    nextCalled, \* per request slot: the middleware called next()
    reqUser,    \* per request slot: req.user
    env,        \* process.env: JWT_SECRET and NODE_ENV, fixed at startup
    gen,        \* the project generator: its arguments, position and outcome
    fs,         \* the file system the generator writes to
    jar,        \* tokens clients received and kept, with how they got them
    okEmails,   \* history: normalized emails of register requests that answered 201
    loggedOut   \* history: kept tokens that a logout request has carried

vars == <<users, nextId, now, pc, req, loc, res, nextCalled, reqUser, env, gen,
          fs, jar, okEmails, loggedOut>>

\* what no request handler writes
outside == <<env, gen, fs>>

\* what the generator does not write
server == <<users, nextId, now, pc, req, loc, res, nextCalled, reqUser, env, jar,
            okEmails, loggedOut>>

\* ---------------------------------------------------------------- strings
LowerChar(c) == IF c = "A" THEN "a" ELSE IF c = "B" THEN "b" ELSE c

ToLower(s) == [i \in 1..Len(s) |-> LowerChar(s[i])]

RECURSIVE TrimLeft(_)
TrimLeft(s) == IF s # <<>> /\ Head(s) = " " THEN TrimLeft(Tail(s)) ELSE s

RECURSIVE TrimRight(_)
TrimRight(s) ==
    IF s # <<>> /\ s[Len(s)] = " " THEN TrimRight(SubSeq(s, 1, Len(s) - 1)) ELSE s

Trim(s) == TrimRight(TrimLeft(s))

\* the email path's setters: lowercase, trim
NormalizeEmail(s) == Trim(ToLower(s))

\* JavaScript truthiness of a string-or-undefined body field
TruthyAlways(s) == TRUE

Truthy(s) == s # <<>>

\* ---------------------------------------------------------------- bcrypt
\* the hash string: version and cost, the salt, then the digest of salt and
\* password (one-way: written here as the pair it is computed from)
BcryptHash(password, salt) == <<"$2a$", SaltRounds, salt>> \o password

\* mutant: the result of compare is not looked at
CompareAlways(password, hash) == TRUE

\* compare re-hashes the password with the salt read from the hash
BcryptCompare(password, hash) == hash = BcryptHash(password, hash[3])

\* ---------------------------------------------------------------- tokens
NoToken == [kind |-> "none"]
Garbage == [kind |-> "garbage"]

Hmac(key, id, iat, exp) == <<key, id, iat, exp>>

\* mutant: iat keeps the clock's full resolution
ClockTimestampFine(t) == t

\* Math.floor(Date.now() / 1000): iat and exp are whole seconds
ClockTimestamp(t) == t \div TicksPerSec

\* mutant: the token is signed for another id
JwtSignOther(id, t) ==
    LET iat == ClockTimestamp(t)
        exp == iat + ExpiresIn
    IN  [kind |-> "jwt", id |-> id + 1, iat |-> iat, exp |-> exp,
         sig |-> Hmac(env.JWT_SECRET, id + 1, iat, exp)]

\* jwt.sign throws when the secret has no value
SignThrows == env.JWT_SECRET = Unset

JwtSign(id, t) ==
    LET iat == ClockTimestamp(t)
        exp == iat + ExpiresIn
    IN  [kind |-> "jwt", id |-> id, iat |-> iat, exp |-> exp,
         sig |-> Hmac(env.JWT_SECRET, id, iat, exp)]

\* mutant: verification with ignoreExpiration
JwtVerifyIgnoreExpiration(token, t) ==
    /\ env.JWT_SECRET # Unset
    /\ token.kind = "jwt"
    /\ token.sig = Hmac(env.JWT_SECRET, token.id, token.iat, token.exp)

\* mutant: verification against a list of logged-out tokens
JwtVerifyRevoking(token, t) ==
    /\ env.JWT_SECRET # Unset
    /\ token.kind = "jwt"
    /\ token.sig = Hmac(env.JWT_SECRET, token.id, token.iat, token.exp)
    /\ ClockTimestamp(t) < token.exp
    /\ token \notin loggedOut

\* TRUE when jwt.verify returns the payload, FALSE when it throws (no secret,
\* malformed token, other signature, expired)
JwtVerify(token, t) ==
    /\ env.JWT_SECRET # Unset
    /\ token.kind = "jwt"
    /\ token.sig = Hmac(env.JWT_SECRET, token.id, token.iat, token.exp)
    /\ ClockTimestamp(t) < token.exp

\* ---------------------------------------------------------------- store
NoUser == [_id |-> 0]

PublicFields == {"_id", "name", "email", "isActive", "createdAt", "updatedAt"}

\* default projection: passwordHash has select: false
Project(u) == [f \in DOMAIN u \ {"passwordHash"} |-> u[f]]

\* mutant: the query filter is matched as given, setters not applied
FindOneExact(email) ==
    LET m == {u \in users : u.email = email}
    IN  IF m = {} THEN NoUser ELSE Project(CHOOSE u \in m : TRUE)

FindOne(email) ==
    LET m == {u \in users : u.email = NormalizeEmail(email)}
    IN  IF m = {} THEN NoUser ELSE Project(CHOOSE u \in m : TRUE)

\* mutant: the login lookup matches the email as given
FindOneWithHashExact(email) ==
    LET m == {u \in users : u.email = email}
    IN  IF m = {} THEN NoUser ELSE CHOOSE u \in m : TRUE

FindOneWithHash(email) ==
    LET m == {u \in users : u.email = NormalizeEmail(email)}
    IN  IF m = {} THEN NoUser ELSE CHOOSE u \in m : TRUE

FindById(id) ==
    LET m == {u \in users : u._id = id}
    IN  IF m = {} THEN NoUser ELSE Project(CHOOSE u \in m : TRUE)

\* the document userModel.create builds: setters applied, defaults and
\* timestamps filled in
NewDoc(name, email, hash, id, t) ==
    [_id |-> id, name |-> Trim(name), email |-> NormalizeEmail(email),
     passwordHash |-> hash, isActive |-> TRUE, createdAt |-> t, updatedAt |-> t]

\* required: true on name and email
SchemaValid(doc) == doc.name # <<>> /\ doc.email # <<>>

\* mutant: no unique index on email
NoUniqueIndex(doc) == FALSE

\* unique: true on email
DuplicateKey(doc) == \E u \in users : u.email = doc.email

\* ---------------------------------------------------------------- responses
NoRes  == [status |-> 0]
NoCookie    == [op |-> "none"]

\* maxAge: 5 * 24 * 60 * 60 * 1000 ms, the 5 days in ticks of the model clock
CookieMaxAge == ExpiresIn * TicksPerSec

\* mutant: the secure flag does not follow NODE_ENV
cookieOptionsSecure ==
    [httpOnly |-> TRUE, secure |-> TRUE,
     sameSite |-> "strict", maxAge |-> CookieMaxAge]

cookieOptions ==
    [httpOnly |-> TRUE, secure |-> env.NODE_ENV = "production",
     sameSite |-> "strict", maxAge |-> CookieMaxAge]

ClearCookie == [op |-> "clear", name |-> "token", options |-> cookieOptions]
SetCookie(token) ==
    [op |-> "set", name |-> "token", value |-> token, options |-> cookieOptions]

\* a response: its status, its JSON body and what it does to the cookie
Reply(status, body, cookie) == [status |-> status, body |-> body, cookie |-> cookie]

\* mutant: an error body with a data field
ErrorReplyWithData(status, message) ==
    Reply(status, [success |-> FALSE, message |-> message, data |-> <<>>], NoCookie)

ErrorReply(status, message) ==
    Reply(status, [success |-> FALSE, message |-> message], NoCookie)

\* mutant: the catch block returns the error's message
CatchReplyLeaky(error) == ErrorReply(500, error)

\* the catch block of a controller: the error is logged, not returned
CatchReply(error) == ErrorReply(500, "Internal server error")

\* mutant: the success response is sent without res.cookie
UserReplyNoCookie(status, message, user, token) ==
    Reply(status, [success |-> TRUE, message |-> message, data |-> [user |-> user]],
          NoCookie)

UserReply(status, message, user, token) ==
    Reply(status, [success |-> TRUE, message |-> message, data |-> [user |-> user]],
          SetCookie(token))

\* mutant: the document is returned as it is
SanitizeWhole(user) == user

\* the userResponse object both controllers build
Sanitize(user) ==
    [_id |-> user._id, name |-> user.name, email |-> user.email,
     isActive |-> user.isActive, createdAt |-> user.createdAt,
     updatedAt |-> user.updatedAt]

\* ---------------------------------------------------------------- requests
IdleReq == [kind |-> "idle"]
NoLoc   == [user |-> NoUser, at |-> 0, dup |-> FALSE, touched |-> FALSE,
            fault |-> "none"]

\* the generator not run
GenOff == [pc |-> "off"]

\* the server as it starts: nothing stored, no request in flight
NoRequests ==
    /\ users = {}
    /\ nextId = 1
    /\ now = 0
    /\ pc = [r \in Slots |-> "idle"]
    /\ req = [r \in Slots |-> IdleReq]
    /\ loc = [r \in Slots |-> NoLoc]
    /\ res = [r \in Slots |-> NoRes]
    /\ nextCalled = [r \in Slots |-> FALSE]
    /\ reqUser = [r \in Slots |-> NoUser]
    /\ jar = {}
    /\ okEmails = {}
    /\ loggedOut = {}

Init ==
    /\ NoRequests
    /\ env = [JWT_SECRET |-> JWT_SECRET, NODE_ENV |-> "development"]
    /\ gen = GenOff
    /\ fs = {}

\* ---------------------------------------------------------------- routing
\* the routes of authRouter under /api/auth and of app, in mounting order
Route(method, path) ==
    CASE method = "POST" /\ path = "/api/auth/register" -> "register"
      [] method = "POST" /\ path = "/api/auth/login"    -> "login"
      [] method = "GET"  /\ path = "/api/auth/logout"   -> "logout"
      [] method = "GET"  /\ path = "/api/health"        -> "health"
      [] method = "GET"  /\ path = "/"                  -> "health"
      [] OTHER                                          -> "notfound"

\* mutant: the CORS middleware passes preflight requests on
AppPreflightContinue(method, path, body) ==
    IF body = "malformed" THEN "error"
    ELSE Route(method, path)

\* the middleware chain: cors answers OPTIONS itself, express.json passes a
\* body it cannot parse to the error handler, the rest is routed
App(method, path, body) ==
    IF method = "OPTIONS" THEN "preflight"
    ELSE IF body = "malformed" THEN "error"
    ELSE Route(method, path)

\* the requests a client sends: only POST carries a body here
Requests ==
    { q \in [method : Methods, path : Paths, body : Bodies] :
        q.body = "malformed" => q.method = "POST" }

Handled(kind) == { q \in Requests : App(q.method, q.path, q.body) = kind }

\* a new request takes the lowest free slot (slots are interchangeable)
Free(r) == pc[r] = "idle" /\ \A q \in Slots : q < r => pc[q] # "idle"

\* An outcome is taken by its client before the server moves on: taking it
\* later would change nothing a handler can see.
Serving == \A q \in Slots : pc[q] # "done"

Finish(r, reply) ==
    /\ res' = [res EXCEPT ![r] = reply]
    /\ pc' = [pc EXCEPT ![r] = "done"]

\* ------------------------------------------------------------- register
RegisterStart(r) ==
    /\ Free(r)
    /\ Serving
    /\ UNCHANGED outside
    /\ \E q \in Handled("register") :
       \E name \in Names, email \in Emails, password \in NewPasswords :
        /\ req' = [req EXCEPT ![r] =
                     [kind |-> "register", method |-> q.method, path |-> q.path,
                      body |-> q.body,
                      name |-> name, email |-> email,
                      password |-> password, afterOk |-> NormalizeEmail(email) \in okEmails]]
        /\ IF ~Truthy(name) \/ ~Truthy(email) \/ ~Truthy(password)
           THEN Finish(r, ErrorReply(400, "All fields are required"))
           ELSE /\ pc' = [pc EXCEPT ![r] = "reg_find"]
                /\ UNCHANGED res
    /\ UNCHANGED <<users, nextId, now, loc, nextCalled, reqUser, jar, okEmails, loggedOut>>

RegisterFindOne(r) ==
    /\ pc[r] = "reg_find"
    /\ Serving
    /\ UNCHANGED outside
    /\ IF FindOne(req[r].email) # NoUser
       THEN Finish(r, ErrorReply(409, "User already exists"))
       ELSE /\ pc' = [pc EXCEPT ![r] = "reg_create"]
            /\ UNCHANGED res
    /\ loc' = [loc EXCEPT ![r].touched = TRUE]
    /\ UNCHANGED <<users, nextId, now, req, nextCalled, reqUser, jar, okEmails, loggedOut>>

RegisterCreate(r) ==
    /\ pc[r] = "reg_create"
    /\ Serving
    /\ UNCHANGED outside
    /\ \E salt \in Salts :
        LET doc == NewDoc(req[r].name, req[r].email,
                          BcryptHash(req[r].password, salt), nextId, now)
        IN  IF ~SchemaValid(doc) \/ DuplicateKey(doc)
            THEN /\ Finish(r, CatchReply(IF SchemaValid(doc) THEN "E11000 duplicate key"
                                          ELSE "ValidationError"))
                 /\ loc' = [loc EXCEPT ![r].dup = SchemaValid(doc), ![r].touched = TRUE,
                                       ![r].fault = "store"]
                 /\ UNCHANGED <<users, nextId>>
            ELSE /\ users' = users \cup {doc}
                 /\ nextId' = nextId + 1
                 /\ loc' = [loc EXCEPT ![r].user = doc, ![r].touched = TRUE]
                 /\ pc' = [pc EXCEPT ![r] = "reg_sign"]
                 /\ UNCHANGED res
    /\ UNCHANGED <<now, req, nextCalled, reqUser, jar, okEmails, loggedOut>>

RegisterRespond(r) ==
    /\ pc[r] = "reg_sign"
    /\ Serving
    /\ UNCHANGED outside
    /\ IF SignThrows
       THEN /\ Finish(r, CatchReply("secretOrPrivateKey must have a value"))
            /\ loc' = [loc EXCEPT ![r].fault = "sign"]
            /\ UNCHANGED okEmails
       ELSE LET token == JwtSign(loc[r].user._id, now)
            IN  /\ Finish(r, UserReply(201, "User registered successfully",
                                       Sanitize(loc[r].user), token))
                /\ loc' = [loc EXCEPT ![r].at = now]
                /\ okEmails' = okEmails \cup {NormalizeEmail(req[r].email)}
    /\ UNCHANGED <<users, nextId, now, req, nextCalled, reqUser, jar, loggedOut>>

\* ---------------------------------------------------------------- login
LoginStart(r) ==
    /\ Free(r)
    /\ Serving
    /\ UNCHANGED outside
    /\ \E q \in Handled("login") :
       \E email \in Emails, password \in Passwords :
        /\ req' = [req EXCEPT ![r] =
                     [kind |-> "login", method |-> q.method, path |-> q.path,
                      body |-> q.body,
                      email |-> email, password |-> password,
                      afterOk |-> NormalizeEmail(email) \in okEmails]]
        /\ IF ~Truthy(email) \/ ~Truthy(password)
           THEN Finish(r, ErrorReply(400, "Email and password are required"))
           ELSE /\ pc' = [pc EXCEPT ![r] = "login_find"]
                /\ UNCHANGED res
    /\ UNCHANGED <<users, nextId, now, loc, nextCalled, reqUser, jar, okEmails, loggedOut>>

LoginFindOne(r) ==
    /\ pc[r] = "login_find"
    /\ Serving
    /\ UNCHANGED outside
    /\ LET user == FindOneWithHash(req[r].email)
       IN  IF user = NoUser
           THEN /\ Finish(r, ErrorReply(404, "User not found"))
                /\ loc' = [loc EXCEPT ![r].touched = TRUE]
           ELSE /\ loc' = [loc EXCEPT ![r].user = user, ![r].touched = TRUE]
                /\ pc' = [pc EXCEPT ![r] = "login_compare"]
                /\ UNCHANGED res
    /\ UNCHANGED <<users, nextId, now, req, nextCalled, reqUser, jar, okEmails, loggedOut>>

\* mutant: a wrong password is left without an answer
LoginRespondHangs(r) ==
    /\ pc[r] = "login_compare"
    /\ Serving
    /\ UNCHANGED outside
    /\ IF ~BcryptCompare(req[r].password, loc[r].user.passwordHash)
       THEN /\ pc' = [pc EXCEPT ![r] = "hung"]
            /\ UNCHANGED <<res, loc>>
       ELSE IF SignThrows
       THEN /\ Finish(r, CatchReply("secretOrPrivateKey must have a value"))
            /\ loc' = [loc EXCEPT ![r].fault = "sign"]
       ELSE LET token == JwtSign(loc[r].user._id, now)
            IN  /\ Finish(r, UserReply(200, "Login successful",
                                       Sanitize(loc[r].user), token))
                /\ loc' = [loc EXCEPT ![r].at = now]
    /\ UNCHANGED <<users, nextId, now, req, nextCalled, reqUser, jar, okEmails, loggedOut>>

LoginRespond(r) ==
    /\ pc[r] = "login_compare"
    /\ Serving
    /\ UNCHANGED outside
    /\ IF ~BcryptCompare(req[r].password, loc[r].user.passwordHash)
       THEN /\ Finish(r, ErrorReply(401, "Invalid password"))
            /\ UNCHANGED loc
       ELSE IF SignThrows
       THEN /\ Finish(r, CatchReply("secretOrPrivateKey must have a value"))
            /\ loc' = [loc EXCEPT ![r].fault = "sign"]
       ELSE LET token == JwtSign(loc[r].user._id, now)
            IN  /\ Finish(r, UserReply(200, "Login successful",
                                       Sanitize(loc[r].user), token))
                /\ loc' = [loc EXCEPT ![r].at = now]
    /\ UNCHANGED <<users, nextId, now, req, nextCalled, reqUser, jar, okEmails, loggedOut>>

\* ---------------------------------------------------------------- cookies
JarTokens == {j.tok : j \in jar}

\* what a client can make of a token it holds without the server's key
Tampered(tok) ==
    { [tok EXCEPT !.exp = tok.exp + 1],
      [tok EXCEPT !.sig = Hmac(OtherKey, tok.id, tok.iat, tok.exp)] }

\* a token under the server's key whose id no User has
StrayToken(t) == JwtSign(0 - 1, t)

\* values the 'token' cookie of a request can have
Cookies ==
    {NoToken, Garbage, StrayToken(now)} \cup JarTokens
        \cup UNION {Tampered(tok) : tok \in JarTokens}

\* --------------------------------------------------------------- logout
\* mutant: logout answers only to a verified token
LogoutVerified(r) ==
    /\ Free(r)
    /\ Serving
    /\ UNCHANGED outside
    /\ \E q \in Handled("logout") :
       \E cookie \in Cookies :
        /\ req' = [req EXCEPT ![r] = [kind |-> "logout", method |-> q.method,
                                      path |-> q.path, body |-> q.body,
                                      cookie |-> cookie]]
        /\ loggedOut' = IF cookie \in JarTokens THEN loggedOut \cup {cookie}
                        ELSE loggedOut
        /\ IF JwtVerify(cookie, now)
           THEN Finish(r, Reply(200, [success |-> TRUE,
                                      message |-> "Logged out successfully"],
                                ClearCookie))
           ELSE Finish(r, ErrorReply(401, "Invalid token"))
    /\ UNCHANGED <<users, nextId, now, loc, nextCalled, reqUser, jar, okEmails>>

Logout(r) ==
    /\ Free(r)
    /\ Serving
    /\ UNCHANGED outside
    /\ \E q \in Handled("logout") :
       \E cookie \in Cookies :
        /\ req' = [req EXCEPT ![r] = [kind |-> "logout", method |-> q.method,
                                      path |-> q.path, body |-> q.body,
                                      cookie |-> cookie]]
        /\ loggedOut' = IF cookie \in JarTokens THEN loggedOut \cup {cookie}
                        ELSE loggedOut
    /\ Finish(r, Reply(200, [success |-> TRUE, message |-> "Logged out successfully"],
                       ClearCookie))
    /\ UNCHANGED <<users, nextId, now, loc, nextCalled, reqUser, jar, okEmails>>

\* ------------------------------------------------------- auth middleware
\* mutant: the cookie is verified without the test for its absence
AuthCheckNoCookieTest(cookie, t) ==
    IF ~JwtVerify(cookie, t) THEN "invalid" ELSE "verified"

\* the synchronous head of the middleware: the cookie is read, then verified
AuthCheck(cookie, t) ==
    IF cookie = NoToken THEN "missing"
    ELSE IF ~JwtVerify(cookie, t) THEN "invalid"
    ELSE "verified"

AuthStart(r) ==
    /\ Free(r)
    /\ Serving
    /\ UNCHANGED outside
    /\ \E cookie \in Cookies :
        /\ req' = [req EXCEPT ![r] =
                     [kind |-> "auth", cookie |-> cookie,
                      afterLogout |-> cookie \in loggedOut]]
        /\ loc' = [loc EXCEPT ![r].at = now]
        /\ IF AuthCheck(cookie, now) = "missing"
           THEN Finish(r, ErrorReply(401, "Unauthorized: token not found"))
           ELSE IF AuthCheck(cookie, now) = "invalid"
           THEN Finish(r, ErrorReply(401, "Invalid token"))
           ELSE /\ pc' = [pc EXCEPT ![r] = "auth_find"]
                /\ UNCHANGED res
    /\ UNCHANGED <<users, nextId, now, nextCalled, reqUser, jar, okEmails, loggedOut>>

AuthFindById(r) ==
    /\ pc[r] = "auth_find"
    /\ Serving
    /\ UNCHANGED outside
    /\ LET user == FindById(req[r].cookie.id)
       IN  IF user = NoUser
           THEN /\ Finish(r, ErrorReply(401, "Unauthorized: user not found"))
                /\ UNCHANGED <<nextCalled, reqUser>>
           ELSE /\ reqUser' = [reqUser EXCEPT ![r] = user]
                /\ nextCalled' = [nextCalled EXCEPT ![r] = TRUE]
                /\ pc' = [pc EXCEPT ![r] = "done"]
                /\ UNCHANGED res
    /\ loc' = [loc EXCEPT ![r].touched = TRUE]
    /\ UNCHANGED <<users, nextId, now, req, jar, okEmails, loggedOut>>

\* ---------------------------------------------------- the other answers
\* a response that ends with Content-Length 0
NoBody == [length |-> 0]

\* cors: an OPTIONS request is answered 204, on any path
Preflight(r) ==
    /\ Free(r)
    /\ Serving
    /\ UNCHANGED outside
    /\ \E q \in Handled("preflight") :
        req' = [req EXCEPT ![r] = [kind |-> "preflight", method |-> q.method,
                                  path |-> q.path, body |-> q.body]]
    /\ Finish(r, Reply(204, NoBody, NoCookie))
    /\ UNCHANGED <<users, nextId, now, loc, nextCalled, reqUser, jar, okEmails, loggedOut>>

\* GET /api/health and GET /
Health(r) ==
    /\ Free(r)
    /\ Serving
    /\ UNCHANGED outside
    /\ \E q \in Handled("health") :
        req' = [req EXCEPT ![r] = [kind |-> "health", method |-> q.method,
                                  path |-> q.path, body |-> q.body]]
    /\ Finish(r, Reply(200, [success |-> TRUE, message |-> "Server is running",
                            timestamp |-> now], NoCookie))
    /\ UNCHANGED <<users, nextId, now, loc, nextCalled, reqUser, jar, okEmails, loggedOut>>

\* the error-handling middleware, reached from express.json
ErrorHandler(r) ==
    /\ Free(r)
    /\ Serving
    /\ UNCHANGED outside
    /\ \E q \in Handled("error") :
        req' = [req EXCEPT ![r] = [kind |-> "error", method |-> q.method,
                                  path |-> q.path, body |-> q.body]]
    /\ Finish(r, ErrorReply(500, "Internal server error"))
    /\ UNCHANGED <<users, nextId, now, loc, nextCalled, reqUser, jar, okEmails, loggedOut>>

\* app.use('*'): what no route took
NotFound(r) ==
    /\ Free(r)
    /\ Serving
    /\ UNCHANGED outside
    /\ \E q \in Handled("notfound") :
        req' = [req EXCEPT ![r] = [kind |-> "notfound", method |-> q.method,
                                  path |-> q.path, body |-> q.body]]
    /\ Finish(r, ErrorReply(404, "Route not found"))
    /\ UNCHANGED <<users, nextId, now, loc, nextCalled, reqUser, jar, okEmails, loggedOut>>

\* ---------------------------------------------------------- environment
\* the client takes the outcome; it may keep the cookie the response set
Receive(r) ==
    /\ pc[r] = "done"
    /\ UNCHANGED outside
    /\ \/ UNCHANGED jar
       \/ /\ res[r].status \in {200, 201}
          /\ res[r].cookie.op = "set"
          /\ Cardinality(jar) < MaxJar
          /\ jar' = jar \cup {[tok |-> res[r].cookie.value, tick |-> loc[r].at,
                               via |-> req[r].kind, uid |-> res[r].body.data.user._id,
                               user |-> res[r].body.data.user]}
    /\ pc' = [pc EXCEPT ![r] = "idle"]
    /\ req' = [req EXCEPT ![r] = IdleReq]
    /\ loc' = [loc EXCEPT ![r] = NoLoc]
    /\ res' = [res EXCEPT ![r] = NoRes]
    /\ nextCalled' = [nextCalled EXCEPT ![r] = FALSE]
    /\ reqUser' = [reqUser EXCEPT ![r] = NoUser]
    /\ UNCHANGED <<users, nextId, now, okEmails, loggedOut>>

Tick ==
    /\ Serving
    /\ UNCHANGED outside
    /\ now < MaxTime
    /\ now' = now + 1
    /\ UNCHANGED <<users, nextId, pc, req, loc, res, nextCalled, reqUser, jar,
                   okEmails, loggedOut>>

Next ==
    \/ \E r \in Slots :
        \/ RegisterStart(r)
        \/ RegisterFindOne(r)
        \/ RegisterCreate(r)
        \/ RegisterRespond(r)
        \/ LoginStart(r)
        \/ LoginFindOne(r)
        \/ LoginRespond(r)
        \/ Logout(r)
        \/ AuthStart(r)
        \/ AuthFindById(r)
        \/ Preflight(r)
        \/ Health(r)
        \/ ErrorHandler(r)
        \/ NotFound(r)
        \/ Receive(r)
    \/ Tick

Spec == Init /\ [][Next]_vars

\* ------------------------------------------------------------- failures
\* the operations that can reject at the await a request stands at:
\* User.findOne, bcrypt.hash then User.create, bcrypt.compare
Faults(at) ==
    CASE at = "reg_find"      -> {"store"}
      [] at = "reg_create"    -> {"hash", "store"}
      [] at = "login_find"    -> {"store"}
      [] at = "login_compare" -> {"hash"}
      [] OTHER                -> {}

RegisterFault(r) ==
    /\ pc[r] \in {"reg_find", "reg_create"}
    /\ Serving
    /\ UNCHANGED outside
    /\ \E f \in Faults(pc[r]) :
        /\ Finish(r, CatchReply(f))
        /\ loc' = [loc EXCEPT ![r].fault = f]
    /\ UNCHANGED <<users, nextId, now, req, nextCalled, reqUser, jar, okEmails, loggedOut>>

LoginFault(r) ==
    /\ pc[r] \in {"login_find", "login_compare"}
    /\ Serving
    /\ UNCHANGED outside
    /\ \E f \in Faults(pc[r]) :
        /\ Finish(r, CatchReply(f))
        /\ loc' = [loc EXCEPT ![r].fault = f]
    /\ UNCHANGED <<users, nextId, now, req, nextCalled, reqUser, jar, okEmails, loggedOut>>

\* User.findById rejects inside the middleware's try block
AuthFault(r) ==
    /\ pc[r] = "auth_find"
    /\ Serving
    /\ UNCHANGED outside
    /\ Finish(r, ErrorReply(401, "Invalid token"))
    /\ loc' = [loc EXCEPT ![r].fault = "store"]
    /\ UNCHANGED <<users, nextId, now, req, nextCalled, reqUser, jar, okEmails, loggedOut>>

\* the server starts whether or not JWT_SECRET is set
InitFault ==
    /\ NoRequests
    /\ \E secret \in {JWT_SECRET, Unset} :
        env = [JWT_SECRET |-> secret, NODE_ENV |-> "development"]
    /\ gen = GenOff
    /\ fs = {}

NextFault ==
    \/ Next
    \/ \E r \in Slots :
        \/ RegisterFault(r)
        \/ LoginFault(r)
        \/ AuthFault(r)

SpecFault == InitFault /\ [][NextFault]_vars

\* ------------------------------------------------------------ scheduling
\* the continuation of the request in slot r once the call it awaits has
\* settled: the handler goes on, or the call has rejected
Step(r) ==
    \/ RegisterFindOne(r)
    \/ RegisterCreate(r)
    \/ RegisterRespond(r)
    \/ RegisterFault(r)
    \/ LoginFindOne(r)
    \/ LoginRespond(r)
    \/ LoginFault(r)
    \/ AuthFindById(r)
    \/ AuthFault(r)

\* the slots in use when requests are served one after another
OneByOne == {1}

\* every request of the server, one at a time, each awaited call returning
\* or throwing
NextLive ==
    \/ \E r \in OneByOne :
        \/ RegisterStart(r)
        \/ LoginStart(r)
        \/ Logout(r)
        \/ AuthStart(r)
        \/ Preflight(r)
        \/ Health(r)
        \/ ErrorHandler(r)
        \/ NotFound(r)
        \/ Step(r)
        \/ Receive(r)
    \/ Tick

\* the event loop runs every continuation whose awaited call has settled, and
\* a response that was sent leaves the server
SpecLive ==
    /\ InitFault
    /\ [][NextLive]_vars
    /\ \A r \in Slots : SF_vars(Step(r)) /\ WF_vars(Receive(r))

\* ---------------------------------------------------------- runtime mode
\* the handlers that write the cookie, under either value of NODE_ENV
InitEnv ==
    /\ NoRequests
    /\ \E mode \in {"production", "development"} :
        env = [JWT_SECRET |-> JWT_SECRET, NODE_ENV |-> mode]
    /\ gen = GenOff
    /\ fs = {}

NextEnv ==
    \/ \E r \in Slots :
        \/ RegisterStart(r)
        \/ RegisterFindOne(r)
        \/ RegisterCreate(r)
        \/ RegisterRespond(r)
        \/ LoginStart(r)
        \/ LoginFindOne(r)
        \/ LoginRespond(r)
        \/ Logout(r)
        \/ Receive(r)
    \/ Tick

SpecEnv == InitEnv /\ [][NextEnv]_vars

\* --------------------------------------------------------- the generator
\* a name is a sequence of characters (or of longer pieces, where no
\* operation looks inside them); a path is a sequence of names
Dot == <<".">>

ProjectNames == { <<>>, Dot, <<"x">>, <<"o">> }            \* process.argv[2]
Answers      == { <<>>, <<" ">>, Dot, <<"x", " ">>, <<"o">> } \* typed at the prompt
Cwds         == { << <<"w">> >>, << <<"h">>, <<"v">> >> }  \* process.cwd()

filesToCopy ==
    << <<"src">>, <<"server.js">>, <<"env.example">>, <<"README.md">>, <<"LICENSE">> >>

\* what the installed package holds of them
Packages ==
    { {filesToCopy[i] : i \in 1..Len(filesToCopy)},
      {filesToCopy[i] : i \in 1..Len(filesToCopy)} \ {<<"env.example">>} }

Dir(path) == [path |-> path, type |-> "dir", data |-> <<"dir", <<>>>>]
File(path, data) == [path |-> path, type |-> "file", data |-> data]

\* path.join(dir, name), for a name without separators
Join(dir, name) == Append(dir, name)

\* path.basename
Basename(path) == path[Len(path)]

\* fs.existsSync
Exists(fsys, path) == \E e \in fsys : e.path = path

\* fs.mkdirSync(path, { recursive: true })
MkDir(fsys, path) == IF Exists(fsys, path) THEN fsys ELSE fsys \cup {Dir(path)}

\* fs.writeFileSync, fs.copyFileSync: the file is created or replaced
WriteFile(fsys, path, data) ==
    {e \in fsys : e.path # path} \cup {File(path, data)}

\* one entry of the package copied: src is a directory (here holding one
\* file) and goes through copyDirectory, the others are files
CopyEntry(fsys, file, dest) ==
    IF file = <<"src">>
    THEN WriteFile(MkDir(fsys, dest), Join(dest, <<"app.js">>),
                   <<"template", <<"src", "app.js">>>>)
    ELSE WriteFile(fsys, dest, <<"template", file>>)

\* mutant: package.json always takes the name as given
PackageNameAsGiven(projectName, cwd) == projectName

\* the "name" of the package.json written
PackageName(projectName, cwd) ==
    IF projectName = Dot THEN Basename(cwd) ELSE projectName

\* what the working directory can hold before the run
Existing(cwd) ==
    { {Dir(cwd)} \cup old \cup readme :
        old \in { {}, {Dir(Join(cwd, <<"o">>)),
                       File(Join(Join(cwd, <<"o">>), <<"keep">>), <<"mine", <<>>>>)} },
        readme \in { {}, {File(Join(cwd, <<"README.md">>), <<"mine", <<>>>>)} } }

Running == 0 - 1

InitGen ==
    /\ NoRequests
    /\ env = [JWT_SECRET |-> JWT_SECRET, NODE_ENV |-> "development"]
    /\ \E argv \in ProjectNames, answer \in Answers, cwd \in Cwds,
          package \in Packages :
       \E fs0 \in Existing(cwd) :
        /\ fs = fs0
        /\ gen = [pc |-> "start", argv |-> argv, answer |-> answer, cwd |-> cwd,
                  package |-> package, fs0 |-> fs0, projectName |-> <<>>,
                  projectPath |-> <<>>, i |-> 1, exit |-> Running]

\* let projectName = process.argv[2]
GenStart ==
    /\ gen.pc = "start"
    /\ gen' = IF Truthy(gen.argv)
              THEN [gen EXCEPT !.projectName = gen.argv, !.pc = "resolve"]
              ELSE [gen EXCEPT !.pc = "ask"]
    /\ UNCHANGED fs
    /\ UNCHANGED server

\* the prompt: the answer is trimmed; no name ends the run with status 1
GenAsk ==
    /\ gen.pc = "ask"
    /\ gen' = IF Truthy(Trim(gen.answer))
              THEN [gen EXCEPT !.projectName = Trim(gen.answer), !.pc = "resolve"]
              ELSE [gen EXCEPT !.pc = "exited", !.exit = 1]
    /\ UNCHANGED fs
    /\ UNCHANGED server

\* the project path: the working directory for '.', else a new directory,
\* and status 1 when something of that name exists
GenResolve ==
    /\ gen.pc = "resolve"
    /\ IF gen.projectName = Dot
       THEN /\ gen' = [gen EXCEPT !.projectPath = gen.cwd, !.pc = "copy"]
            /\ UNCHANGED fs
       ELSE LET projectPath == Join(gen.cwd, gen.projectName)
            IN  IF Exists(fs, projectPath)
                THEN /\ gen' = [gen EXCEPT !.projectPath = projectPath,
                                           !.pc = "exited", !.exit = 1]
                     /\ UNCHANGED fs
                ELSE /\ gen' = [gen EXCEPT !.projectPath = projectPath, !.pc = "copy"]
                     /\ fs' = MkDir(fs, projectPath)
    /\ UNCHANGED server

\* one turn of filesToCopy.forEach
GenCopy ==
    /\ gen.pc = "copy"
    /\ gen.i <= Len(filesToCopy)
    /\ LET file == filesToCopy[gen.i]
       IN  fs' = IF file \in gen.package
                 THEN CopyEntry(fs, file, Join(gen.projectPath, file))
                 ELSE fs
    /\ gen' = [gen EXCEPT !.i = gen.i + 1]
    /\ UNCHANGED server

\* package.json is written and the run ends
GenPackageJson ==
    /\ gen.pc = "copy"
    /\ gen.i > Len(filesToCopy)
    /\ fs' = WriteFile(fs, Join(gen.projectPath, <<"package.json">>),
                       <<"package", PackageName(gen.projectName, gen.cwd)>>)
    /\ gen' = [gen EXCEPT !.pc = "exited", !.exit = 0]
    /\ UNCHANGED server

NextGen ==
    \/ GenStart
    \/ GenAsk
    \/ GenResolve
    \/ GenCopy
    \/ GenPackageJson

SpecGen == InitGen /\ [][NextGen]_vars

\* ---------------------------------------------------------------- claims
Done(r, kind) == pc[r] = "done" /\ req[r].kind = kind

UsersWithEmail(email) == {u \in users : u.email = NormalizeEmail(email)}

Error(r, status, message) ==
    /\ res[r] = [status |-> status,
                 body |-> [success |-> FALSE, message |-> message],
                 cookie |-> NoCookie]
    /\ ~nextCalled[r]
    /\ reqUser[r] = NoUser

\* C1: a register request for an email that arrives after a register request
\* for that email has answered 201 answers 409 'User already exists', and the
\* store then holds exactly one User for that email (name and password given).
RegisterTwiceConflict ==
    \A r \in Slots :
        ( /\ Done(r, "register")
          /\ req[r].afterOk
          /\ Truthy(req[r].name) /\ Truthy(req[r].password) )
        => /\ Error(r, 409, "User already exists")
           /\ Cardinality(UsersWithEmail(req[r].email)) = 1

RegisterTwiceWitness ==
    \E r \in Slots :
        /\ Done(r, "register")
        /\ req[r].afterOk
        /\ res[r].status = 409
        /\ Cardinality(UsersWithEmail(req[r].email)) = 1

\* C2: in every state the store holds at most one User per email, and a create
\* for an email that a User already has fails: it adds nothing and the handler
\* does not go on to sign a token.
AtMostOnePerEmail == \A u, v \in users : u.email = v.email => u = v

CreateOfDuplicateFails ==
    \A r \in Slots :
        ( /\ pc[r] = "reg_create"
          /\ pc'[r] # "reg_create"
          /\ UsersWithEmail(req[r].email) # {} )
        => /\ users' = users
           /\ nextId' = nextId
           /\ pc'[r] = "done"
           /\ res'[r].status >= 400

OneUserPerEmail == []AtMostOnePerEmail /\ [][CreateOfDuplicateFails]_vars

OneUserPerEmailWitness ==
    \E r \in Slots :
        /\ Done(r, "register")
        /\ loc[r].dup
        /\ res[r].status >= 400
        /\ Cardinality(UsersWithEmail(req[r].email)) = 1

\* C3: a register request that passed the existence pre-check and whose create
\* the store rejected as a duplicate answers 409 'User already exists', and
\* the store holds the one User the other request created.
RaceAnswersConflict ==
    \A r \in Slots :
        (Done(r, "register") /\ loc[r].dup)
        => /\ Error(r, 409, "User already exists")
           /\ Cardinality(UsersWithEmail(req[r].email)) = 1

\* C4: no body of a register or login response has a passwordHash field or a
\* stored hash as a value; the user object of a 201/200 body has exactly the
\* fields _id, name, email, isActive, createdAt, updatedAt.
BodyHidesHash(body) ==
    /\ "passwordHash" \notin DOMAIN body
    /\ "data" \in DOMAIN body =>
          /\ DOMAIN body.data = {"user"}
          /\ DOMAIN body.data.user = PublicFields
          /\ \A u \in users :
                /\ body.data.user.name # u.passwordHash
                /\ body.data.user.email # u.passwordHash

NoHashInResponse ==
    \A r \in Slots :
        (Done(r, "register") \/ Done(r, "login"))
        => /\ BodyHidesHash(res[r].body)
           /\ res[r].status \in {200, 201} => "data" \in DOMAIN res[r].body

NoHashInResponseWitness ==
    \E r, q \in Slots :
        /\ Done(r, "register") /\ res[r].status = 201
        /\ \E u \in users : u._id = res[r].body.data.user._id
                            /\ "passwordHash" \in DOMAIN u
        /\ pc[q] = "login_compare"
        /\ "passwordHash" \in DOMAIN loc[q].user

\* C5: login answers 200 only if a User has the given email and the given
\* password is the one hashed for that User; a wrong password for an email
\* registered before the request answers 401 'Invalid password', an email no
\* User has answers 404 'User not found', and neither sets the cookie.
PasswordOf(u, password) == u.passwordHash = BcryptHash(password, u.passwordHash[3])

LoginOnlyWithPassword ==
    \A r \in Slots :
        Done(r, "login") =>
            /\ res[r].status = 200
                  => \E u \in UsersWithEmail(req[r].email) : PasswordOf(u, req[r].password)
            /\ ( /\ req[r].afterOk
                 /\ Truthy(req[r].password)
                 /\ \A u \in UsersWithEmail(req[r].email) : ~PasswordOf(u, req[r].password) )
                  => Error(r, 401, "Invalid password")
            /\ ( /\ Truthy(req[r].email) /\ Truthy(req[r].password)
                 /\ UsersWithEmail(req[r].email) = {} )
                  => Error(r, 404, "User not found")

LoginOnlyWithPasswordWitness ==
    \E r \in Slots :
        /\ Done(r, "login")
        /\ req[r].afterOk
        /\ res[r].status = 401
        /\ UsersWithEmail(req[r].email) # {}
        /\ req[r].password = <<"q">>

\* C6: the token of a register 201, presented to the middleware before its
\* expiry, makes the middleware call next with req.user the User whose id is
\* the _id of that register response.
RegisterTokenResolves ==
    \A r \in Slots : \A j \in jar :
        ( /\ Done(r, "auth")
          /\ j.via = "register"
          /\ req[r].cookie = j.tok
          /\ ClockTimestamp(loc[r].at) < j.tok.exp )
        => /\ nextCalled[r]
           /\ res[r] = NoRes
           /\ reqUser[r]._id = j.uid
           /\ reqUser[r] \in {Project(u) : u \in users}

RegisterTokenResolvesWitness ==
    \E r \in Slots : \E j \in jar :
        /\ Done(r, "auth")
        /\ j.via = "register"
        /\ req[r].cookie = j.tok
        /\ nextCalled[r]
        /\ reqUser[r]._id = j.uid

\* C7 as stated: a token presented 5 days or more after it was issued is
\* rejected with 401 'Invalid token' (no next, no req.user); one presented
\* less than 5 days after it was issued is not rejected for expiry.
Lifetime == ExpiresIn * TicksPerSec

InvalidToken(r) == Error(r, 401, "Invalid token")

ExpiryFromIssuance ==
    \A r \in Slots : \A j \in jar :
        (Done(r, "auth") /\ req[r].cookie = j.tok)
        => /\ loc[r].at - j.tick >= Lifetime => InvalidToken(r)
           /\ loc[r].at - j.tick < Lifetime => ~InvalidToken(r)

\* C7 as amended: a token presented 5 days or more after it was issued is
\* rejected with 401 'Invalid token' (no next, no req.user); one presented
\* while the clock's whole second is less than the whole second of its
\* issuance plus 5 days is not rejected for expiry.
ExpiryFromIssuedSecond ==
    \A r \in Slots : \A j \in jar :
        (Done(r, "auth") /\ req[r].cookie = j.tok)
        => /\ loc[r].at - j.tick >= Lifetime => InvalidToken(r)
           /\ ClockTimestamp(loc[r].at) < ClockTimestamp(j.tick) + ExpiresIn
                 => ~InvalidToken(r) /\ nextCalled[r]

ExpiryWitness ==
    \E r \in Slots : \E j \in jar :
        /\ Done(r, "auth")
        /\ req[r].cookie = j.tok
        /\ loc[r].at - j.tick >= Lifetime
        /\ InvalidToken(r)

\* C8: the middleware ends in one of four ways, tried in this order: no cookie,
\* 401 'Unauthorized: token not found'; token not verified, 401 'Invalid
\* token'; no User with the token's id, 401 'Unauthorized: user not found';
\* else req.user is that User and next is called.  next is called only then.
Verifies(token, t) ==
    /\ token.kind = "jwt"
    /\ token.sig = <<JWT_SECRET, token.id, token.iat, token.exp>>
    /\ t \div TicksPerSec < token.exp

AuthOutcomes ==
    \A r \in Slots :
        Done(r, "auth") =>
            LET c == req[r].cookie
                holder == {u \in users : u._id = c.id}
            IN  IF c = NoToken
                THEN Error(r, 401, "Unauthorized: token not found")
                ELSE IF ~Verifies(c, loc[r].at)
                THEN Error(r, 401, "Invalid token")
                ELSE IF holder = {}
                THEN Error(r, 401, "Unauthorized: user not found")
                ELSE /\ res[r] = NoRes
                     /\ nextCalled[r]
                     /\ reqUser[r] \in {Project(u) : u \in holder}

AuthOutcomesWitness ==
    \E r \in Slots :
        /\ Done(r, "auth")
        /\ Verifies(req[r].cookie, loc[r].at)
        /\ Error(r, 401, "Unauthorized: user not found")

\* C9: a logout request answers 200 with success true and clears the 'token'
\* cookie whatever cookie it carries: none, a valid token, an expired or
\* malformed one, or one of a user that does not exist.
LogoutAlwaysOk ==
    \A r \in Slots :
        Done(r, "logout") =>
            /\ res[r].status = 200
            /\ res[r].body = [success |-> TRUE, message |-> "Logged out successfully"]
            /\ res[r].cookie.op = "clear"
            /\ res[r].cookie.name = "token"

LogoutAlwaysOkWitness ==
    \E r \in Slots :
        /\ Done(r, "logout")
        /\ req[r].cookie \in JarTokens
        /\ ~Verifies(req[r].cookie, now)
        /\ res[r].status = 200

\* C10: a token issued by register or login and carried by a logout request
\* is still accepted by the middleware afterwards (req.user attached, next
\* called) whenever it is presented before its expiry and its user exists.
LogoutRevokesNothing ==
    \A r \in Slots :
        ( /\ Done(r, "auth")
          /\ req[r].afterLogout
          /\ req[r].cookie \in JarTokens
          /\ ClockTimestamp(loc[r].at) < req[r].cookie.exp
          /\ \E u \in users : u._id = req[r].cookie.id )
        => /\ nextCalled[r]
           /\ res[r] = NoRes
           /\ reqUser[r]._id = req[r].cookie.id

LogoutRevokesNothingWitness ==
    \E r \in Slots :
        /\ Done(r, "auth")
        /\ req[r].afterLogout
        /\ req[r].cookie \in JarTokens
        /\ nextCalled[r]

\* C11: a register request whose name, email or password is missing or empty
\* answers 400 'All fields are required', and a login request whose email or
\* password is missing or empty answers 400 'Email and password are required';
\* the store was neither read nor written for it, no token was issued and no
\* cookie was set (so it never answers 500).
MissingFieldRejected ==
    \A r \in Slots :
        /\ ( /\ Done(r, "register")
             /\ (req[r].name = <<>> \/ req[r].email = <<>> \/ req[r].password = <<>>) )
           => /\ Error(r, 400, "All fields are required")
              /\ ~loc[r].touched
              /\ loc[r].user = NoUser
        /\ ( /\ Done(r, "login")
             /\ (req[r].email = <<>> \/ req[r].password = <<>>) )
           => /\ Error(r, 400, "Email and password are required")
              /\ ~loc[r].touched
              /\ loc[r].user = NoUser

MissingFieldWitness ==
    \E r \in Slots :
        /\ Done(r, "register")
        /\ req[r].name # <<>> /\ req[r].email # <<>> /\ req[r].password = <<>>
        /\ res[r].status = 400
        /\ users # {}

\* C12: when a store, hashing or signing operation fails inside register or
\* login, the answer is 500 with success false and the message 'Internal
\* server error', with no cookie and nothing of the error in the body.
FailureAnswersGeneric ==
    \A r \in Slots :
        ( /\ pc[r] = "done"
          /\ req[r].kind \in {"register", "login"}
          /\ loc[r].fault # "none" )
        => /\ Error(r, 500, "Internal server error")
           /\ DOMAIN res[r].body = {"success", "message"}

FailureWitness ==
    \E r \in Slots :
        /\ Done(r, "login") /\ loc[r].fault = "hash" /\ res[r].status = 500
        /\ loc[r].user # NoUser

\* C13: every register that answers 201 and every login that answers 200 sets
\* the cookie 'token' to a token that embeds the id of the user in the body,
\* with httpOnly on, sameSite 'strict', secure on exactly when NODE_ENV is
\* production, and a max-age of 5 days, the token's own lifetime; login and
\* register set it with the same attributes.
CookiePolicy ==
    \A r \in Slots :
        ( /\ pc[r] = "done"
          /\ \/ req[r].kind = "register" /\ res[r].status = 201
             \/ req[r].kind = "login" /\ res[r].status = 200 )
        => LET c == res[r].cookie
           IN  /\ c.op = "set"
               /\ c.name = "token"
               /\ c.value.kind = "jwt"
               /\ c.value.id = res[r].body.data.user._id
               /\ c.value.sig = <<env.JWT_SECRET, c.value.id, c.value.iat, c.value.exp>>
               /\ c.options.httpOnly = TRUE
               /\ c.options.sameSite = "strict"
               /\ c.options.secure = (env.NODE_ENV = "production")
               /\ c.options.maxAge = ExpiresIn * TicksPerSec
               /\ c.options.maxAge = (c.value.exp - c.value.iat) * TicksPerSec
               /\ DOMAIN c.options = {"httpOnly", "secure", "sameSite", "maxAge"}

CookiePolicyWitness ==
    \E r \in Slots :
        /\ Done(r, "login")
        /\ res[r].status = 200
        /\ env.NODE_ENV = "production"
        /\ res[r].cookie.options.secure

\* a login that answered 200 and arrived after a register for its email had
\* answered 201, paired with the token that register issued
LoginAfterRegister(r, j) ==
    /\ Done(r, "login")
    /\ res[r].status = 200
    /\ req[r].afterOk
    /\ j \in jar
    /\ j.via = "register"
    /\ j.uid = res[r].body.data.user._id

\* C14 as stated: a login that follows a register 201 with the same email and
\* password, however little time passes, answers 200 with the user projection
\* register returned and a token that differs from the register-time token
\* while embedding the same user id.
LoginTokenFresh ==
    \A r \in Slots : \A j \in jar :
        LoginAfterRegister(r, j)
        => /\ res[r].body.data.user = j.user
           /\ res[r].cookie.value.id = j.tok.id
           /\ res[r].cookie.value # j.tok

\* C14: a login that follows a register 201 with the same email and password
\* answers 200 with the user projection register returned and a token that
\* embeds the same user id; the token differs from the register-time token
\* (in issued-at, expiry and signature) exactly when it is signed in a later
\* whole second, and is identical to it when signed within the same second.
LoginTokenBySecond ==
    \A r \in Slots : \A j \in jar :
        LoginAfterRegister(r, j)
        => /\ res[r].body.data.user = j.user
           /\ res[r].cookie.value.id = j.tok.id
           /\ res[r].cookie.value.iat >= j.tok.iat
           /\ (res[r].cookie.value # j.tok)
                <=> (loc[r].at \div TicksPerSec > j.tick \div TicksPerSec)
           /\ (res[r].cookie.value # j.tok)
                => /\ res[r].cookie.value.iat # j.tok.iat
                   /\ res[r].cookie.value.sig # j.tok.sig

LoginTokenWitness ==
    \E r \in Slots : \E j \in jar :
        /\ LoginAfterRegister(r, j)
        /\ loc[r].at > j.tick
        /\ res[r].cookie.value = j.tok

\* a request that came over HTTP and has been answered
Answered(r) == pc[r] = "done" /\ res[r] # NoRes

\* the response envelope of the API
Envelope(r) ==
    /\ "success" \in DOMAIN res[r].body
    /\ res[r].body.success \in BOOLEAN
    /\ res[r].body.success <=> res[r].status \in {200, 201}
    /\ ~res[r].body.success
        => /\ "message" \in DOMAIN res[r].body
           /\ "data" \notin DOMAIN res[r].body

IsPreflight(r) == "method" \in DOMAIN req[r] /\ req[r].method = "OPTIONS"

Routes ==
    { <<"POST", "/api/auth/register">>, <<"POST", "/api/auth/login">>,
      <<"GET", "/api/auth/logout">>, <<"GET", "/api/health">>, <<"GET", "/">> }

Unmatched(r) ==
    /\ Answered(r)
    /\ "method" \in DOMAIN req[r]
    /\ req[r].body = "ok"
    /\ <<req[r].method, req[r].path>> \notin Routes

Unparsed(r) ==
    /\ Answered(r)
    /\ "method" \in DOMAIN req[r]
    /\ req[r].body = "malformed"

GivenName == IF gen.argv # <<>> THEN gen.argv ELSE Trim(gen.answer)

\* a path at or below a directory
Under(path, dir) == Len(path) >= Len(dir) /\ SubSeq(path, 1, Len(dir)) = dir

\* the project written at a directory under a package name
ProjectAt(dir, name) ==
    /\ Dir(dir) \in fs
    /\ \A file \in gen.package :
        \E e \in fs : e.path = Join(dir, file) /\ e.data[1] # "mine"
    /\ File(Join(dir, <<"package.json">>), <<"package", name>>) \in fs

\* C19: run with a project name N other than '.', the generator creates the
\* new directory N under the current directory and writes the template files
\* and a package.json named N, touching nothing else; when N exists already
\* it exits with status 1 and creates or modifies no file.  With '.', it
\* writes into the current directory and names package.json after that
\* directory's base name.  With no name and an empty answer to the prompt it
\* exits with status 1 and writes nothing.
GeneratorOutcome ==
    (gen.pc = "exited")
    => LET dir == Join(gen.cwd, GivenName)
       IN  IF GivenName = <<>>
           THEN gen.exit = 1 /\ fs = gen.fs0
           ELSE IF GivenName = <<".">>
           THEN /\ gen.exit = 0
                /\ ProjectAt(gen.cwd, gen.cwd[Len(gen.cwd)])
                /\ \A e \in gen.fs0 : e \in fs \/ e.path = Join(gen.cwd, <<"README.md">>)
           ELSE IF Exists(gen.fs0, dir)
           THEN gen.exit = 1 /\ fs = gen.fs0
           ELSE /\ gen.exit = 0
                /\ ProjectAt(dir, GivenName)
                /\ gen.fs0 \subseteq fs
                /\ \A e \in fs \ gen.fs0 : Under(e.path, dir)

GeneratorWitness ==
    /\ gen.pc = "exited"
    /\ gen.argv = <<>>
    /\ GivenName = <<"o">>
    /\ Exists(gen.fs0, Join(gen.cwd, <<"o">>))
    /\ gen.exit = 1

\* C17: the signing secret is required before any request is served: in no
\* reachable state does register or login run without a secret, is a user
\* created without its token being issued, or is a token issued that was signed
\* without a secret.
SecretRequired ==
    \A r \in Slots :
        /\ (pc[r] # "idle" /\ req[r].kind \in {"register", "login"})
            => env.JWT_SECRET # Unset
        /\ (Done(r, "register") /\ loc[r].user # NoUser)
            => /\ res[r].status = 201
               /\ res[r].cookie.op = "set"
               /\ res[r].cookie.value.sig[1] # Unset

\* C18: the store only grows and its records never change: only a register
\* request at its create step adds to the users collection, every other step
\* leaves it as it is, every register that answers an error has created no
\* User, and no User's fields differ from those it was created with.
StoreGrowsOnly ==
    /\ users \subseteq users'
    /\ \A u \in users' : \A v \in users' : u._id = v._id => u = v
    /\ users' # users
        => \E r \in Slots :
            /\ req[r].kind = "register"
            /\ pc[r] = "reg_create"
            /\ users' = users \cup {loc'[r].user}

FailedRegisterStoresNothing ==
    \A r \in Slots :
        (Done(r, "register") /\ res[r].status >= 400)
        => loc[r].user = NoUser

StoreOnlyGrows == []FailedRegisterStoresNothing /\ [][StoreGrowsOnly]_vars

\* an email as the store holds it: no capital letter, no space at either end
Normalized(email) ==
    /\ \A i \in DOMAIN email : email[i] \notin {"A", "B"}
    /\ email # <<>> => email[1] # " " /\ email[Len(email)] # " "

\* C20: emails are compared after normalization to lowercase (and trimming):
\* the stored and returned email of every User is lowercase; a register whose
\* email differs only in letter case from an existing User's answers 409 and
\* creates no second User; a login whose email differs only in letter case
\* from a User's finds that User.
EmailsCompareNormalized ==
    /\ \A u \in users : Normalized(u.email)
    /\ \A u \in users : \A v \in users : u.email = v.email => u = v
    /\ \A r \in Slots :
        /\ (Answered(r) /\ "data" \in DOMAIN res[r].body)
            => Normalized(res[r].body.data.user.email)
        /\ ( /\ Done(r, "register")
             /\ req[r].afterOk
             /\ req[r].name # <<>> /\ req[r].password # <<>> )
            => /\ res[r].status = 409
               /\ loc[r].user = NoUser
        /\ (Done(r, "login") /\ req[r].afterOk /\ req[r].password # <<>>)
            => /\ res[r].status \in {200, 401}
               /\ loc[r].user \in users
               /\ loc[r].user.email = NormalizeEmail(req[r].email)

EmailsWitness ==
    \E r \in Slots :
        /\ Done(r, "login")
        /\ req[r].email = <<"A">>
        /\ res[r].status = 200
        /\ res[r].body.data.user.email = <<"a">>

\* C21: a register request changes the store only when it answers 201: when a
\* register request has answered 400, 409 or 500, the users collection holds
\* no User that this request created.
RegisterErrorKeepsStore ==
    \A r \in Slots :
        (Done(r, "register") /\ res[r].status \in {400, 409, 500})
        => /\ loc[r].user \notin users
           /\ \A u \in users : u._id # loc[r].user._id

\* C22: the 'token' cookie is set only together with a success response: a
\* response sets it to a token exactly when it is a register 201 or a login
\* 200, no response with status 400, 401, 404, 409 or 500 touches it, and the
\* only other response that touches it is logout's, which clears it.
CookieOnlyOnSuccess ==
    \A r \in Slots :
        Answered(r)
        => /\ (res[r].cookie.op = "set")
                <=> \/ req[r].kind = "register" /\ res[r].status = 201
                    \/ req[r].kind = "login" /\ res[r].status = 200
           /\ (res[r].cookie.op = "set")
                => res[r].cookie.name = "token" /\ res[r].cookie.value.kind = "jwt"
           /\ (res[r].status \in {400, 401, 404, 409, 500})
                => res[r].cookie.op = "none"
           /\ (res[r].cookie.op # "none" /\ res[r].cookie.op # "set")
                <=> req[r].kind = "logout"
           /\ req[r].kind = "logout"
                => res[r].cookie.op = "clear" /\ res[r].cookie.name = "token"

CookieOnlyOnSuccessWitness ==
    \E r \in Slots :
        /\ Done(r, "login")
        /\ res[r].status = 200
        /\ res[r].cookie.op = "set"
        /\ loggedOut # {}

\* a request in flight has produced no outcome; a finished one has produced
\* exactly one: a response, or (auth middleware only) the call of next
OneOutcome ==
    \A r \in Slots :
        /\ pc[r] # "done" => res[r] = NoRes /\ ~nextCalled[r]
        /\ pc[r] = "done" => (res[r] # NoRes) # nextCalled[r]
        /\ nextCalled[r] => req[r].kind = "auth"

\* an outcome once produced is not followed by another one
NoSecondOutcome ==
    \A r \in Slots :
        (res[r] # NoRes \/ nextCalled[r])
        => \/ res'[r] = res[r] /\ nextCalled'[r] = nextCalled[r]
           \/ pc'[r] = "idle"

InFlight(r) == pc[r] \notin {"idle", "done"}

\* C23: every request reaches exactly one terminal outcome: register, login
\* and logout eventually send exactly one response and never a second one, and
\* the auth middleware either sends exactly one response or calls next exactly
\* once, never both and never neither, whatever the store and token operations
\* return or throw.
OneTerminalOutcome ==
    /\ []OneOutcome
    /\ [][NoSecondOutcome]_vars
    /\ \A r \in Slots : InFlight(r) ~> (pc[r] = "done")

OneTerminalOutcomeWitness ==
    \E r \in Slots :
        /\ Done(r, "auth")
        /\ nextCalled[r]
        /\ res[r] = NoRes
        /\ req[r].cookie \in JarTokens
        /\ now > 0

====
